---------------------------- MODULE Spec2Model ----------------------------
(***************************************************************************)
(* A model of BoS (src/main.go): the in-memory key-value store guarded by  *)
(* a sync.RWMutex, with its secure-erase delete, and the encrypted         *)
(* snapshot save/load built on it.                                         *)
(*                                                                         *)
(* Strings and byte slices are sequences of byte values 0..255.  A value   *)
(* of the store is a []byte buffer: the map holds a reference into `heap`  *)
(* and the buffer's bytes live there, so that zero(v) is visible through   *)
(* every slice that still refers to the buffer.                            *)
(***************************************************************************)
EXTENDS Integers, Sequences, FiniteSets, TLC

VARIABLES
    mu,         \* kv.mu: [w |-> goroutine that owns the writer side (0: none), r |-> readers]
    data,       \* kv.data: key -> reference of the value's buffer
    heap,       \* buffer reference -> the buffer's bytes
    th,         \* per goroutine: the call in progress, its position and its locals
    committed,  \* history: the store's contents when the last writer unlocked
    settled,    \* history: per key, what the calls that have returned left there
    fs,         \* the file system: path -> [kind |-> "none", "file" or "dir", bytes]
    conn,       \* a connection: whether it is open, the line being served, the replies
    g,          \* history: per goroutine, what its call in progress may rely on
    prov        \* history: per path, how the file there came to be

vars == <<mu, data, heap, th, fs, conn, committed, settled, g, prov>>

----------------------------------------------------------------------------
(* Bounds and inputs *)

NThreads == 2
Threads == 1..NThreads

\* "k" and "l"
Keys == {<<107>>, <<108>>}
\* "a" and "b\xFF" (the byte 0xFF is not valid UTF-8)
Vals == {<<97>>, <<98, 255>>}

\* "p" and "q"
Passwords == {<<112>>, <<113>>}

\* a file path and the path of a directory
Paths == {"db.bin", "dir"}

\* what crypto/rand.Read may fill the salt and the nonce of one save with:
\* one byte value each, repeated
Rand == {[salt |-> 1, nonce |-> 3], [salt |-> 2, nonce |-> 4]}

EmptyMap == [x \in {} |-> <<>>]

\* the map[string]string arguments replace is called with:
\* {}, {"k": "a"} and {"k": "b\xFF", "l": "a"}
Maps == {EmptyMap, [x \in {<<107>>} |-> <<97>>],
         [x \in Keys |-> IF x = <<107>> THEN <<98, 255>> ELSE <<97>>]}

----------------------------------------------------------------------------
(* Maps and buffers *)

Put(d, k, x) == [y \in DOMAIN d \cup {k} |-> IF y = k THEN x ELSE d[y]]

Remove(d, k) == [y \in DOMAIN d \ {k} |-> d[y]]

\* the nil slice
Nil == [key |-> <<>>, n |-> 0]

\* []byte(val): a fresh buffer. Its reference is named after the key it is
\* made for, with the least number no buffer in use has
NewRef(h, key) ==
    [key |-> key,
     n |-> CHOOSE n \in 1..(Cardinality(DOMAIN h) + 1) :
             /\ [key |-> key, n |-> n] \notin DOMAIN h
             /\ \A j \in 1..(n - 1) : [key |-> key, n |-> j] \in DOMAIN h]

\* references reachable from the map or from a goroutine's local slice v
Live(d, t) == ({d[k] : k \in DOMAIN d} \cup {t[u].v : u \in Threads}) \ {Nil}

\* the garbage collector: buffers nothing refers to are gone
Collect(h, d, t) == [b \in DOMAIN h \cap Live(d, t) |-> h[b]]

\* the store as strings: what a reader holding the lock sees
Contents(d, h) == [k \in DOMAIN d |-> h[d[k]]]

\* the (string, bool) a lookup of k in a map of strings gives
Lookup(m, k) == IF k \in DOMAIN m THEN [s |-> m[k], ok |-> TRUE]
                ELSE [s |-> <<>>, ok |-> FALSE]

----------------------------------------------------------------------------
(* Byte strings *)

RECURSIVE Sum(_)
Sum(b) == IF b = <<>> THEN 0 ELSE Head(b) + Sum(Tail(b))

\* strings.Compare(a, b) < 0
RECURSIVE Less(_, _)
Less(a, b) ==
    IF b = <<>> THEN FALSE
    ELSE IF a = <<>> THEN TRUE
    ELSE IF Head(a) # Head(b) THEN Head(a) < Head(b)
    ELSE Less(Tail(a), Tail(b))

\* the strings of S in increasing order
RECURSIVE Sorted(_)
Sorted(S) ==
    IF S = {} THEN <<>>
    ELSE LET x == CHOOSE y \in S : \A z \in S \ {y} : Less(y, z) IN
           <<x>> \o Sorted(S \ {x})

Drop(b, n) == SubSeq(b, n + 1, Len(b))

Take(b, n) == SubSeq(b, 1, n)

\* zero(b), the whole loop
Zero(b) == [j \in 1..Len(b) |-> 0]

----------------------------------------------------------------------------
(* UTF-8, as unicode/utf8 decodes it *)

Cont(x) == x >= 128 /\ x <= 191

\* the number of bytes of the rune that begins b, 0 when b begins with bytes
\* that are no valid encoding (utf8.DecodeRune gives RuneError, width 1)
RuneLen(b) ==
    LET x == b[1] IN
    IF x < 128 THEN 1
    ELSE IF x >= 194 /\ x <= 223 /\ Len(b) >= 2 /\ Cont(b[2]) THEN 2
    ELSE IF /\ x >= 224 /\ x <= 239 /\ Len(b) >= 3 /\ Cont(b[2]) /\ Cont(b[3])
            /\ (x = 224 => b[2] >= 160) /\ (x = 237 => b[2] <= 159) THEN 3
    ELSE IF /\ x >= 240 /\ x <= 244 /\ Len(b) >= 4 /\ Cont(b[2]) /\ Cont(b[3])
            /\ Cont(b[4]) /\ (x = 240 => b[2] >= 144) /\ (x = 244 => b[2] <= 143) THEN 4
    ELSE 0

\* U+FFFD, the replacement character, in UTF-8
RuneError == <<239, 191, 189>>

\* utf8.AppendRune for a rune below U+10000
EncodeRune(r) ==
    IF r < 128 THEN <<r>>
    ELSE IF r < 2048 THEN <<192 + (r \div 64), 128 + (r % 64)>>
    ELSE IF r >= 55296 /\ r <= 57343 THEN RuneError
    ELSE <<224 + (r \div 4096), 128 + ((r \div 64) % 64), 128 + (r % 64)>>

----------------------------------------------------------------------------
(* encoding/json for a map[string]string: json.Marshal *)

HexDigit(n) == IF n < 10 THEN 48 + n ELSE 87 + n

\* \u00XX
EscapeByte(x) == <<92, 117, 48, 48, HexDigit(x \div 16), HexDigit(x % 16)>>

\* one character of a string as the encoder writes it: the bytes written and
\* the number of bytes of the string they stand for
EncodeChar(b) ==
    LET x == b[1]
        n == RuneLen(b) IN
    IF x = 34 \/ x = 92 THEN [w |-> <<92, x>>, n |-> 1]
    ELSE IF x = 10 THEN [w |-> <<92, 110>>, n |-> 1]
    ELSE IF x = 13 THEN [w |-> <<92, 114>>, n |-> 1]
    ELSE IF x = 9 THEN [w |-> <<92, 116>>, n |-> 1]
    ELSE IF x < 32 \/ x = 60 \/ x = 62 \/ x = 38 THEN [w |-> EscapeByte(x), n |-> 1]
    ELSE IF x < 128 THEN [w |-> <<x>>, n |-> 1]
    ELSE IF n = 0 THEN [w |-> <<92, 117, 102, 102, 102, 100>>, n |-> 1]
    ELSE IF Take(b, 3) = <<226, 128, 168>> THEN [w |-> <<92, 117, 50, 48, 50, 56>>, n |-> 3]
    ELSE IF Take(b, 3) = <<226, 128, 169>> THEN [w |-> <<92, 117, 50, 48, 50, 57>>, n |-> 3]
    ELSE [w |-> Take(b, n), n |-> n]

RECURSIVE EncodeChars(_)
EncodeChars(b) ==
    IF b = <<>> THEN <<>>
    ELSE LET c == EncodeChar(b) IN c.w \o EncodeChars(Drop(b, c.n))

\* a string as a JSON string: invalid UTF-8 is written as �
EncodeString(b) == <<34>> \o EncodeChars(b) \o <<34>>

RECURSIVE EncodeMembers(_, _)
EncodeMembers(m, ks) ==
    IF ks = <<>> THEN <<>>
    ELSE EncodeString(Head(ks)) \o <<58>> \o EncodeString(m[Head(ks)])
         \o (IF Len(ks) > 1 THEN <<44>> ELSE <<>>) \o EncodeMembers(m, Tail(ks))

\* json.Marshal(state): the members in the order of their keys
Marshal(m) == <<123>> \o EncodeMembers(m, Sorted(DOMAIN m)) \o <<125>>

----------------------------------------------------------------------------
(* encoding/json for a map[string]string: json.Unmarshal.  The input is     *)
(* accepted when it is null or an object whose values are strings or null;  *)
(* any other input is a syntax error or a value of the wrong type.  A       *)
(* parser's result is [ok, v, rest]: whether it succeeded, what it read and  *)
(* the input that follows.                                                  *)

Fail == [ok |-> FALSE, v |-> <<>>, rest |-> <<>>]

\* F(e) as Go calls it: the argument is evaluated, once, before the call
Of(F(_), e) == CHOOSE r \in {F(x) : x \in {e}} : TRUE

RECURSIVE SkipSpace(_)
SkipSpace(b) ==
    IF b # <<>> /\ Head(b) \in {32, 9, 10, 13} THEN SkipSpace(Tail(b)) ELSE b

\* the value of a hexadecimal digit, -1 for any other byte
HexValue(x) ==
    IF x >= 48 /\ x <= 57 THEN x - 48
    ELSE IF x >= 97 /\ x <= 102 THEN x - 87
    ELSE IF x >= 65 /\ x <= 70 THEN x - 55
    ELSE -1

\* the rune of the four hexadecimal digits that begin b, -1 if they are not
Hex4(b) ==
    IF Len(b) < 4 \/ \E j \in 1..4 : HexValue(b[j]) < 0 THEN -1
    ELSE 4096 * HexValue(b[1]) + 256 * HexValue(b[2]) + 16 * HexValue(b[3]) + HexValue(b[4])

\* a rune from U+10000 on, in UTF-8
EncodeRune4(r) ==
    <<240 + (r \div 262144), 128 + ((r \div 4096) % 64), 128 + ((r \div 64) % 64),
      128 + (r % 64)>>

NoEscape == [ok |-> FALSE, v |-> <<>>, n |-> 0]

\* \uXXXX\uYYYY with XXXX = r a high surrogate: the rune of the pair when
\* YYYY = lo is a low surrogate, else U+FFFD for \uXXXX alone
Surrogates(r, lo) ==
    IF lo >= 56320 /\ lo <= 57343
    THEN [ok |-> TRUE, n |-> 11,
          v |-> EncodeRune4(65536 + 1024 * (r - 55296) + (lo - 56320))]
    ELSE [ok |-> TRUE, v |-> RuneError, n |-> 5]

\* \uXXXX, r the value of XXXX
Unicode(b, r) ==
    IF r < 0 THEN NoEscape
    ELSE IF r >= 55296 /\ r <= 56319 /\ Len(b) >= 11 /\ b[6] = 92 /\ b[7] = 117
    THEN Surrogates(r, Hex4(Drop(b, 7)))
    ELSE [ok |-> TRUE, v |-> EncodeRune(r), n |-> 5]

\* an escape sequence, b beginning after its backslash with the byte x:
\* [ok, v, n], n the number of bytes read
Escape(b, x) ==
    IF x \in {34, 92, 47} THEN [ok |-> TRUE, v |-> <<x>>, n |-> 1]
    ELSE IF x = 98 THEN [ok |-> TRUE, v |-> <<8>>, n |-> 1]
    ELSE IF x = 102 THEN [ok |-> TRUE, v |-> <<12>>, n |-> 1]
    ELSE IF x = 110 THEN [ok |-> TRUE, v |-> <<10>>, n |-> 1]
    ELSE IF x = 114 THEN [ok |-> TRUE, v |-> <<13>>, n |-> 1]
    ELSE IF x = 116 THEN [ok |-> TRUE, v |-> <<9>>, n |-> 1]
    ELSE IF x = 117 THEN Unicode(b, Hex4(Drop(b, 1)))
    ELSE NoEscape

Unescape(b) == IF b = <<>> THEN NoEscape ELSE Escape(b, b[1])

\* the backslash counted in
Escaped(e) == [e EXCEPT !.n = @ + 1]

\* a character that is no escape, n its RuneLen: bytes that are no valid
\* UTF-8 are read as U+FFFD
Unescaped(b, n) ==
    IF n = 0 THEN [ok |-> TRUE, v |-> RuneError, n |-> 1]
    ELSE [ok |-> TRUE, v |-> Take(b, n), n |-> n]

\* one character of a string literal: [ok, v, n]
DecodeChar(b) ==
    IF Head(b) = 92 THEN Escaped(Unescape(Tail(b))) ELSE Unescaped(b, RuneLen(b))

\* the bytes v, read before what t read
Before(v, t) == IF t.ok THEN [t EXCEPT !.v = v \o @] ELSE Fail

RECURSIVE DecodeChars(_)

\* the character c read, the characters that follow it in b
DecodeMore(b, c) ==
    IF c.ok THEN Of(LAMBDA t : Before(c.v, t), Of(DecodeChars, Drop(b, c.n))) ELSE Fail

\* the characters of a string literal up to its closing quote
DecodeChars(b) ==
    IF b = <<>> \/ Head(b) < 32 THEN Fail
    ELSE IF Head(b) = 34 THEN [ok |-> TRUE, v |-> <<>>, rest |-> Tail(b)]
    ELSE Of(LAMBDA c : DecodeMore(b, c), DecodeChar(b))

DecodeString(b) ==
    IF b # <<>> /\ Head(b) = 34 THEN Of(DecodeChars, Tail(b)) ELSE Fail

\* a member's value: a string, or null, which leaves the empty string
DecodeValue(b) ==
    IF Len(b) >= 4 /\ Take(b, 4) = <<110, 117, 108, 108>>
    THEN [ok |-> TRUE, v |-> <<>>, rest |-> Drop(b, 4)]
    ELSE DecodeString(b)

RECURSIVE DecodeMembers(_, _)

\* after a member: the end of the object, or a comma and the next member
AfterMember(d, m) ==
    IF d = <<>> THEN Fail
    ELSE IF Head(d) = 125 THEN [ok |-> TRUE, v |-> m, rest |-> Tail(d)]
    ELSE IF Head(d) = 44 THEN Of(LAMBDA b : DecodeMembers(b, m), SkipSpace(Tail(d)))
    ELSE Fail

\* the key k and the value x read; a key read twice keeps its last value
AfterValue(k, x, m) ==
    IF x.ok
    THEN Of(LAMBDA d : Of(LAMBDA n : AfterMember(d, n), Put(m, k.v, x.v)),
            SkipSpace(x.rest))
    ELSE Fail

\* the key k read, c what follows it: a colon and the value
AfterKey(k, c, m) ==
    IF c # <<>> /\ Head(c) = 58
    THEN Of(LAMBDA x : AfterValue(k, x, m), Of(DecodeValue, SkipSpace(Tail(c))))
    ELSE Fail

DecodeMember(k, m) ==
    IF k.ok THEN Of(LAMBDA c : AfterKey(k, c, m), SkipSpace(k.rest)) ELSE Fail

\* the members of an object, b beginning at a key, m the members read so far
DecodeMembers(b, m) == Of(LAMBDA k : DecodeMember(k, m), DecodeString(b))

\* c what follows the opening brace
DecodeBody(c) ==
    IF c = <<>> THEN Fail
    ELSE IF Head(c) = 125 THEN [ok |-> TRUE, v |-> EmptyMap, rest |-> Tail(c)]
    ELSE DecodeMembers(c, EmptyMap)

DecodeObject(b) ==
    IF b # <<>> /\ Head(b) = 123 THEN Of(DecodeBody, SkipSpace(Tail(b))) ELSE Fail

\* with null, m stays the nil map
DecodeTop(b) ==
    IF Len(b) >= 4 /\ Take(b, 4) = <<110, 117, 108, 108>>
    THEN [ok |-> TRUE, v |-> EmptyMap, rest |-> Drop(b, 4)]
    ELSE DecodeObject(b)

\* nothing but space may follow the value
Decoded(o) ==
    IF o.ok /\ SkipSpace(o.rest) = <<>>
    THEN [err |-> "", m |-> o.v]
    ELSE [err |-> "json", m |-> EmptyMap]

\* json.Unmarshal(pt, &m): [err, m]
Unmarshal(pt) == Of(Decoded, Of(DecodeTop, SkipSpace(pt)))

----------------------------------------------------------------------------
(* Key derivation and AES-GCM, idealised.  deriveKey is a fixed function    *)
(* of password and salt that tells apart the passwords and salts of the     *)
(* model.  Seal adds a key stream to the plaintext and appends a tag        *)
(* computed from key, nonce and ciphertext; Open recomputes the tag, and    *)
(* refuses on any difference, before it removes the key stream.             *)

SaltSize == 16
KeySize == 32
NonceSize == 12
TagSize == 16
MinFileSize == 28

deriveKey(pass, salt) ==
    [j \in 1..KeySize |-> (7 * Sum(pass) + 3 * Sum(salt) + 11 * j) % 256]

Stream(key, nonce, j) ==
    key[1 + ((j - 1) % KeySize)] + nonce[1 + ((j - 1) % NonceSize)]

Tag(key, nonce, c) ==
    [j \in 1..TagSize |->
       (key[j] + key[j + TagSize] + nonce[1 + ((j - 1) % NonceSize)] + Len(c) + Sum(c)) % 256]

\* g.Seal(nil, nonce, blob, nil)
Seal(key, nonce, pt) ==
    LET c == [j \in 1..Len(pt) |-> (pt[j] + Stream(key, nonce, j)) % 256] IN
      c \o Tag(key, nonce, c)

\* the errors of loadFromFile's length check and of g.Open
InvalidFile == "invalid file"

AuthFailed == "cipher: message authentication failed"

\* an Open that does not compare the tag
OpenUnverified(key, nonce, ct) ==
    LET n == IF Len(ct) < TagSize THEN 0 ELSE Len(ct) - TagSize IN
      [err |-> "", pt |-> [j \in 1..n |-> (ct[j] + 512 - Stream(key, nonce, j)) % 256]]

\* g.Open(nil, nonce, ct, nil): [err, pt]
Open(key, nonce, ct) ==
    LET n == Len(ct) - TagSize
        c == Take(ct, n) IN
    IF n < 0 \/ Drop(ct, n) # Tag(key, nonce, c)
    THEN [err |-> AuthFailed, pt |-> <<>>]
    ELSE [err |-> "", pt |-> [j \in 1..n |-> (c[j] + 512 - Stream(key, nonce, j)) % 256]]

\* f.Write(p) at the file's offset
WriteAt(bytes, off, p) ==
    LET old == bytes \o [j \in 1..(off - Len(bytes)) |-> 0] IN
      Take(old, off) \o p \o Drop(old, off + Len(p))

----------------------------------------------------------------------------
(* sync.RWMutex: Lock first takes the writer side, which keeps new readers  *)
(* out, then waits for the readers that are in to leave.                    *)

RLockAnyway(m) == TRUE

CanRLock(m) == m.w = 0

CanLock(m) == m.w = 0

LockedAnyway(m) == TRUE

ReadersGone(m) == m.r = {}

----------------------------------------------------------------------------
(* The goroutine's record *)

\* Of kv's methods: key, val, in the parameters; v, ok, out the locals; i the
\* index of a loop over bytes, rem what a range has yet to visit; rs, rb the
\* string and the bool returned.  Of saveToFile and loadFromFile: file, pass
\* the parameters; blob, salt, dk (the derived key), nonce, ct, pt the
\* locals, buf the bytes read, off the offset of the open file, err the
\* error returned ("" is nil).
Idle == [pc |-> "idle", op |-> "none", key |-> <<>>, val |-> <<>>, v |-> Nil,
         ok |-> FALSE, i |-> 0, rem |-> {}, out |-> EmptyMap, in |-> EmptyMap,
         rs |-> <<>>, rb |-> FALSE,
         file |-> "", pass |-> <<>>, blob |-> <<>>, salt |-> <<>>, dk |-> <<>>,
         nonce |-> <<>>, ct |-> <<>>, pt |-> <<>>, buf |-> <<>>, off |-> 0,
         err |-> ""]

At(t, p) == th[t].pc = p

Goto(t, p) == th' = [th EXCEPT ![t].pc = p]

\* the call has returned: what is left is its result (and the key asked for)
Returned(r) ==
    [Idle EXCEPT !.pc = "done", !.op = r.op, !.key = r.key, !.val = r.val,
                 !.rs = r.rs, !.rb = r.rb, !.out = r.out, !.file = r.file,
                 !.pass = r.pass, !.blob = r.blob, !.dk = r.dk, !.pt = r.pt,
                 !.err = r.err]

Return(t, r) == th' = [th EXCEPT ![t] = Returned(r)]

Calling(t, o, k, x, m) ==
    /\ th[t].pc \in {"idle", "done"}
    /\ th' = [th EXCEPT ![t] = [Idle EXCEPT !.pc = o, !.op = o, !.key = k,
                                            !.val = x, !.in = m]]
    /\ UNCHANGED <<mu, data, heap>>

\* a call of saveToFile or loadFromFile; saveToFile begins with store.snapshot()
CallingFile(t, o, file, pass) ==
    /\ th[t].pc \in {"idle", "done"}
    /\ th' = [th EXCEPT ![t] = [Idle EXCEPT !.pc = IF o = "save" THEN "snapshot" ELSE o,
                                            !.op = o, !.file = file, !.pass = pass]]
    /\ UNCHANGED <<mu, data, heap>>

\* k.mu.Lock(), first half: take the writer side
Lock(t, from, to) ==
    /\ At(t, from)
    /\ CanLock(mu)
    /\ mu' = [mu EXCEPT !.w = t]
    /\ Goto(t, to)
    /\ UNCHANGED <<data, heap>>

\* k.mu.Lock(), second half: the readers have left
Locked(t, from, to) ==
    /\ At(t, from)
    /\ ReadersGone(mu)
    /\ Goto(t, to)
    /\ UNCHANGED <<mu, data, heap>>

RLock(t, from, to) ==
    /\ At(t, from)
    /\ CanRLock(mu)
    /\ mu' = [mu EXCEPT !.r = @ \cup {t}]
    /\ Goto(t, to)
    /\ UNCHANGED <<data, heap>>

----------------------------------------------------------------------------
(* func (k *kv) set(key, val string) *)

\* a store that forgets the other keys, one that keeps the entry it has
SetEntryOnly(d, key, ref) == [x \in {key} |-> ref]

SetEntryIfAbsent(d, key, ref) == IF key \in DOMAIN d THEN d ELSE Put(d, key, ref)

SetEntry(d, key, ref) == Put(d, key, ref)

CallSet(t) == \E key \in Keys, val \in Vals : Calling(t, "set", key, val, EmptyMap)

SetLock(t) == Lock(t, "set", "set_locking")

SetLocked(t) == Locked(t, "set_locking", "set_store")

\* k.data[key] = []byte(val)
SetStore(t) ==
    /\ At(t, "set_store")
    /\ LET ref == NewRef(heap, th[t].key) IN
         /\ data' = SetEntry(data, th[t].key, ref)
         /\ heap' = Collect(Put(heap, ref, th[t].val), data', th)
    /\ Goto(t, "set_unlock")
    /\ UNCHANGED mu

SetUnlock(t) ==
    /\ At(t, "set_unlock")
    /\ mu' = [mu EXCEPT !.w = 0]
    /\ Return(t, th[t])
    /\ UNCHANGED <<data, heap>>

----------------------------------------------------------------------------
(* func (k *kv) get(key string) (string, bool) *)

CallGet(t) == \E key \in Keys : Calling(t, "get", key, <<>>, EmptyMap)

GetRLock(t) == RLock(t, "get", "get_lookup")

\* v, ok := k.data[key]
GetLookup(t) ==
    /\ At(t, "get_lookup")
    /\ LET key == th[t].key IN
         th' = [th EXCEPT ![t].v = IF key \in DOMAIN data THEN data[key] ELSE Nil,
                          ![t].ok = key \in DOMAIN data,
                          ![t].pc = "get_runlock"]
    /\ UNCHANGED <<mu, data, heap>>

\* k.mu.RUnlock(): v still refers to the store's buffer
GetRUnlock(t) ==
    /\ At(t, "get_runlock")
    /\ mu' = [mu EXCEPT !.r = @ \ {t}]
    /\ th' = [th EXCEPT ![t].pc = "get_string", ![t].i = 1]
    /\ UNCHANGED <<data, heap>>

\* string(v): the bytes are read one by one from the buffer, whatever they
\* are by now; then return string(v), ok
GetString(t) ==
    /\ At(t, "get_string")
    /\ LET r == th[t]
           n == IF r.v = Nil THEN 0 ELSE Len(heap[r.v])
           s == IF r.i <= n THEN Append(r.rs, heap[r.v][r.i]) ELSE r.rs IN
         /\ IF r.i < n
            THEN th' = [th EXCEPT ![t].rs = s, ![t].i = @ + 1]
            ELSE Return(t, [r EXCEPT !.rs = s, !.rb = r.ok])
         /\ heap' = Collect(heap, data, th')
    /\ UNCHANGED <<mu, data>>

----------------------------------------------------------------------------
(* func zero(b []byte), one byte per step, and func (k *kv) del(key string) *)

\* a zero that leaves the byte as it is
ZeroByteNot(b, i) == b

ZeroByte(b, i) == [b EXCEPT ![i] = 0]

\* one turn of zero's loop over the buffer th[t].v; `to` follows the loop
ZeroStep(t, to) ==
    /\ LET r == th[t] IN
         /\ heap' = IF r.i <= Len(heap[r.v])
                    THEN [heap EXCEPT ![r.v] = ZeroByte(@, r.i)] ELSE heap
         /\ th' = IF r.i < Len(heap[r.v])
                  THEN [th EXCEPT ![t].i = @ + 1]
                  ELSE [th EXCEPT ![t].pc = to, ![t].i = 0]
    /\ UNCHANGED <<mu, data>>

\* a delete that leaves the entry
DeleteEntryNot(d, key) == d

DeleteEntry(d, key) == Remove(d, key)

CallDel(t) == \E key \in Keys : Calling(t, "del", key, <<>>, EmptyMap)

DelLock(t) == Lock(t, "del", "del_locking")

DelLocked(t) == Locked(t, "del_locking", "del_lookup")

\* a del that reports an absent key as removed
DelAbsentTrue(r) == [r EXCEPT !.ok = FALSE, !.rb = TRUE, !.pc = "del_unlock"]

\* a del that returns false with the lock held
DelAbsentLocked(r) == [r EXCEPT !.ok = FALSE, !.rb = FALSE, !.pc = "done"]

\* if !ok { return false }: what is left is the deferred Unlock
DelAbsent(r) == [r EXCEPT !.ok = FALSE, !.rb = FALSE, !.pc = "del_unlock"]

\* v, ok := k.data[key]; if !ok { return false }
DelLookup(t) ==
    /\ At(t, "del_lookup")
    /\ LET key == th[t].key IN
         IF key \in DOMAIN data
         THEN th' = [th EXCEPT ![t].v = data[key], ![t].ok = TRUE, ![t].i = 1,
                               ![t].pc = "del_zero"]
         ELSE th' = [th EXCEPT ![t] = DelAbsent(@)]
    /\ UNCHANGED <<mu, data, heap>>

DelZero(t) == At(t, "del_zero") /\ ZeroStep(t, "del_delete")

\* delete(k.data, key); return true
DelDelete(t) ==
    /\ At(t, "del_delete")
    /\ data' = DeleteEntry(data, th[t].key)
    /\ th' = [th EXCEPT ![t].v = Nil, ![t].rb = TRUE, ![t].pc = "del_unlock"]
    /\ heap' = Collect(heap, data', th')
    /\ UNCHANGED mu

\* the deferred k.mu.Unlock()
DelUnlock(t) ==
    /\ At(t, "del_unlock")
    /\ mu' = [mu EXCEPT !.w = 0]
    /\ Return(t, th[t])
    /\ UNCHANGED <<data, heap>>

----------------------------------------------------------------------------
(* func (k *kv) snapshot() map[string]string; saveToFile calls it too *)

\* string(v) under the lock: a copy of the buffer's bytes
String(b) == b

CallSnapshot(t) == Calling(t, "snapshot", <<>>, <<>>, EmptyMap)

\* k.mu.RLock(); out := make(map[string]string, len(k.data)); the range begins
SnapshotRLock(t) ==
    /\ At(t, "snapshot")
    /\ CanRLock(mu)
    /\ mu' = [mu EXCEPT !.r = @ \cup {t}]
    /\ th' = [th EXCEPT ![t].out = EmptyMap, ![t].rem = DOMAIN data,
                        ![t].pc = "snap_range"]
    /\ UNCHANGED <<data, heap>>

\* for key, v := range k.data { out[key] = string(v) }, in any order
SnapshotRange(t) ==
    /\ At(t, "snap_range")
    /\ IF th[t].rem = {}
       THEN Goto(t, "snap_runlock")
       ELSE \E key \in th[t].rem :
              th' = [th EXCEPT ![t].rem = @ \ {key},
                               ![t].out = IF key \in DOMAIN data
                                          THEN Put(@, key, String(heap[data[key]]))
                                          ELSE @]
    /\ UNCHANGED <<mu, data, heap>>

\* the deferred k.mu.RUnlock(); return out
SnapshotRUnlock(t) ==
    /\ At(t, "snap_runlock")
    /\ mu' = [mu EXCEPT !.r = @ \ {t}]
    /\ IF th[t].op = "save" THEN Goto(t, "save_marshal") ELSE Return(t, th[t])
    /\ UNCHANGED <<data, heap>>

----------------------------------------------------------------------------
(* func (k *kv) replace(in map[string]string); loadFromFile calls it *)

CallReplace(t) == \E in \in Maps : Calling(t, "replace", <<>>, <<>>, in)

ReplaceLock(t) == Lock(t, "replace", "rep_locking")

ReplaceLocked(t) == Locked(t, "rep_locking", "rep_range")

\* for key, v := range k.data { ... }: the next entry, in any order; after
\* the last one the second range begins
ReplaceRange(t) ==
    /\ At(t, "rep_range")
    /\ IF DOMAIN data = {}
       THEN th' = [th EXCEPT ![t].rem = DOMAIN th[t].in, ![t].key = <<>>,
                             ![t].pc = "rep_install"]
       ELSE \E key \in DOMAIN data :
              th' = [th EXCEPT ![t].key = key, ![t].v = data[key], ![t].i = 1,
                               ![t].pc = "rep_zero"]
    /\ UNCHANGED <<mu, data, heap>>

ReplaceZero(t) == At(t, "rep_zero") /\ ZeroStep(t, "rep_delete")

\* delete(k.data, key)
ReplaceDelete(t) ==
    /\ At(t, "rep_delete")
    /\ data' = DeleteEntry(data, th[t].key)
    /\ th' = [th EXCEPT ![t].v = Nil, ![t].pc = "rep_range"]
    /\ heap' = Collect(heap, data', th')
    /\ UNCHANGED mu

\* for key, val := range in { k.data[key] = []byte(val) }, in any order
ReplaceInstall(t) ==
    /\ At(t, "rep_install")
    /\ IF th[t].rem = {}
       THEN /\ Goto(t, "rep_unlock")
            /\ UNCHANGED <<data, heap>>
       ELSE \E key \in th[t].rem :
              LET ref == NewRef(heap, key) IN
                /\ data' = SetEntry(data, key, ref)
                /\ heap' = Collect(Put(heap, ref, th[t].in[key]), data', th)
                /\ th' = [th EXCEPT ![t].rem = @ \ {key}]
    /\ UNCHANGED mu

ReplaceUnlock(t) ==
    /\ At(t, "rep_unlock")
    /\ mu' = [mu EXCEPT !.w = 0]
    /\ IF th[t].op = "load" THEN th' = [th EXCEPT ![t].pc = "load_zero", ![t].key = <<>>]
       ELSE Return(t, [th[t] EXCEPT !.key = <<>>])
    /\ UNCHANGED <<data, heap>>

----------------------------------------------------------------------------
(* func saveToFile(store *kv, file, pass string) error.  rand.Read,         *)
(* aes.NewCipher with a 32-byte key and cipher.NewGCM do not fail.          *)

Repeat(x, n) == [j \in 1..n |-> x]

CallSave(t) == \E file \in Paths, pass \in Passwords : CallingFile(t, "save", file, pass)

\* blob, err := json.Marshal(state) ... ct := g.Seal(nil, nonce, blob, nil)
SaveSeal(t) ==
    /\ At(t, "save_marshal")
    /\ \E rnd \in Rand :
         \E blob \in {Marshal(th[t].out)}, salt \in {Repeat(rnd.salt, SaltSize)},
            nonce \in {Repeat(rnd.nonce, NonceSize)} :
           \E key \in {deriveKey(th[t].pass, salt)} :
             \E ct \in {Seal(key, nonce, blob)} :
               th' = [th EXCEPT ![t].blob = blob, ![t].salt = salt, ![t].dk = key,
                                ![t].nonce = nonce, ![t].ct = ct,
                                ![t].pc = "save_open"]
    /\ UNCHANGED <<mu, data, heap, fs>>

\* an open that takes a directory for a file
OpenFailsNever(f) == FALSE

\* os.OpenFile for writing fails on a directory
OpenFails(f) == f.kind = "dir"

\* f, err := os.OpenFile(file, os.O_CREATE|os.O_WRONLY|os.O_TRUNC, 0600)
SaveOpen(t) ==
    /\ At(t, "save_open")
    /\ IF OpenFails(fs[th[t].file])
       THEN /\ Return(t, [th[t] EXCEPT !.err = "open"])
            /\ fs' = fs
       ELSE /\ fs' = [fs EXCEPT ![th[t].file] = [kind |-> "file", bytes |-> <<>>]]
            /\ th' = [th EXCEPT ![t].off = 0, ![t].pc = "save_salt"]
    /\ UNCHANGED <<mu, data, heap>>

\* if _, err := f.Write(p); err != nil { return err }: the write succeeds,
\* or fails and leaves the file as it is
SaveWrite(t, from, p, to) ==
    /\ At(t, from)
    /\ \/ /\ fs' = [fs EXCEPT ![th[t].file].bytes = WriteAt(@, th[t].off, p)]
          /\ th' = [th EXCEPT ![t].off = @ + Len(p), ![t].pc = to]
       \/ /\ Return(t, [th[t] EXCEPT !.err = "write"])
          /\ fs' = fs
    /\ UNCHANGED <<mu, data, heap>>

SaveWriteSalt(t) == SaveWrite(t, "save_salt", th[t].salt, "save_nonce")

SaveWriteNonce(t) == SaveWrite(t, "save_nonce", th[t].nonce, "save_ct")

SaveWriteCt(t) == SaveWrite(t, "save_ct", th[t].ct, "save_zero")

\* zero(blob); zero(key); return nil
SaveZero(t) ==
    /\ At(t, "save_zero")
    /\ Return(t, [th[t] EXCEPT !.blob = Zero(@), !.dk = Zero(@)])
    /\ UNCHANGED <<mu, data, heap, fs>>

----------------------------------------------------------------------------
(* func loadFromFile(store *kv, file, pass string) error *)

CallLoad(t) == \E file \in Paths, pass \in Passwords : CallingFile(t, "load", file, pass)

\* data, err := os.ReadFile(file)
LoadRead(t) ==
    /\ At(t, "load")
    /\ IF fs[th[t].file].kind = "file"
       THEN th' = [th EXCEPT ![t].buf = fs[th[t].file].bytes, ![t].pc = "load_decode"]
       ELSE Return(t, [th[t] EXCEPT !.err = "read"])
    /\ UNCHANGED <<mu, data, heap, fs>>

\* a length check that turns down a file of 28 bytes too
TooShortOrJust(buf) == Len(buf) <= MinFileSize

\* if len(data) < 28
TooShort(buf) == Len(buf) < MinFileSize

\* salt := data[:16]; nonce := data[16:28]; ct := data[28:];
\* key := deriveKey([]byte(pass), salt)
Split(r) ==
    [r EXCEPT !.salt = Take(r.buf, SaltSize),
              !.nonce = SubSeq(r.buf, SaltSize + 1, SaltSize + NonceSize),
              !.ct = Drop(r.buf, SaltSize + NonceSize),
              !.dk = deriveKey(r.pass, Take(r.buf, SaltSize))]

\* if err := json.Unmarshal(pt, &m); err != nil { return err }
Parsed(r, u) == IF u.err # "" THEN [r EXCEPT !.err = u.err] ELSE [r EXCEPT !.in = u.m]

\* pt, err := g.Open(nil, nonce, ct, nil); if err != nil { return err }
Opened(r, o) ==
    IF o.err # "" THEN [r EXCEPT !.err = o.err]
    ELSE Of(LAMBDA u : Parsed([r EXCEPT !.pt = o.pt], u), Of(Unmarshal, o.pt))

Decrypt(r) == Of(LAMBDA o : Opened(r, o), Open(r.dk, r.nonce, r.ct))

\* from the length check to json.Unmarshal: the locals as they are when
\* loadFromFile returns an error or calls store.replace(m)
Decode(r) ==
    IF TooShort(r.buf) THEN [r EXCEPT !.err = InvalidFile] ELSE Of(Decrypt, Split(r))

\* return err, or every check passed and store.replace(m) is next
LoadDecoded(t, r) ==
    IF r.err # "" THEN Return(t, r)
    ELSE th' = [th EXCEPT ![t] = [r EXCEPT !.pc = "replace"]]

LoadDecode(t) ==
    /\ At(t, "load_decode")
    /\ \E r \in {Decode(th[t])} : LoadDecoded(t, r)
    /\ UNCHANGED <<mu, data, heap, fs>>

\* zero(pt); zero(key); return nil
LoadZero(t) ==
    /\ At(t, "load_zero")
    /\ Return(t, [th[t] EXCEPT !.pt = Zero(@), !.dk = Zero(@)])
    /\ UNCHANGED <<mu, data, heap, fs>>

----------------------------------------------------------------------------
(* Files that loadFromFile is given and saveToFile did not write: the       *)
(* tests' os.WriteFile(file, []byte("short"), 0600), and with it a file of  *)
(* salt and nonce alone, the same file less its last byte, a sealed         *)
(* plaintext that is no JSON object, and,                                   *)
(* after a saveToFile that returned nil, its file with the last byte        *)
(* changed.                                                                 *)

Sealed(pass, s, n, pt) ==
    Repeat(s, SaltSize) \o Repeat(n, NonceSize)
      \o Seal(deriveKey(pass, Repeat(s, SaltSize)), Repeat(n, NonceSize), pt)

\* bytes with the byte at i changed
TamperedAt(bytes, i) == [bytes EXCEPT ![i] = (@ + 1) % 256]

Tampered(bytes) == TamperedAt(bytes, Len(bytes))

Crafted(r, file) ==
    {<<115, 104, 111, 114, 116>>,
     Repeat(1, SaltSize) \o Repeat(3, NonceSize),
     Repeat(1, SaltSize) \o Repeat(3, NonceSize - 1),
     Sealed(<<112>>, 1, 3, <<91>>)}
      \cup (IF r.op = "save" /\ r.err = "" /\ r.file = file
            THEN {Tampered(fs[file].bytes)} ELSE {})

\* os.WriteFile(file, bytes, 0600) called by goroutine t
WriteFile(t, file, bytes) ==
    /\ th[t].pc \in {"idle", "done"}
    /\ fs[file].kind # "dir"
    /\ fs' = [fs EXCEPT ![file] = [kind |-> "file", bytes |-> bytes]]
    /\ th' = [th EXCEPT ![t] = [Idle EXCEPT !.pc = "done", !.op = "writefile",
                                            !.file = file]]
    /\ UNCHANGED <<mu, data, heap>>

OsWriteFile(t) ==
    /\ th[t].pc \in {"idle", "done"}
    /\ \E file \in {x \in Paths : fs[x].kind # "dir"} :
         \E bytes \in Crafted(th[t], file) : WriteFile(t, file, bytes)

\* goroutine t, which has written nothing yet, changes a byte of the file r
\* has saved: the first byte of the ciphertext or the last byte of the tag
TamperFile(t, r) ==
    /\ th[t].pc = "idle"
    /\ r.pc = "done" /\ r.op = "save" /\ r.err = ""
    /\ \E i \in {SaltSize + NonceSize + 1, Len(fs[r.file].bytes)} :
         WriteFile(t, r.file, TamperedAt(fs[r.file].bytes, i))

----------------------------------------------------------------------------
(* func handle(c net.Conn, store *kv): one connection, served line by line. *)
(* conn.log holds the lines answered and the reply to each, the last        *)
(* MaxLog of them.                                                          *)

MaxLog == 2

\* unicode.IsSpace for ASCII
IsSpace(x) == x \in {9, 10, 11, 12, 13, 32}

RECURSIVE TrimLeft(_)
TrimLeft(b) == IF b # <<>> /\ IsSpace(Head(b)) THEN TrimLeft(Tail(b)) ELSE b

RECURSIVE TrimRight(_)
TrimRight(b) ==
    IF b # <<>> /\ IsSpace(b[Len(b)]) THEN TrimRight(Take(b, Len(b) - 1)) ELSE b

\* strings.TrimSpace
TrimSpace(b) == TrimRight(TrimLeft(b))

\* the length of the word that begins b
RECURSIVE WordLen(_)
WordLen(b) == IF b = <<>> \/ IsSpace(Head(b)) THEN 0 ELSE 1 + WordLen(Tail(b))

RECURSIVE Fields(_)

\* the word of n bytes that begins b, and the fields after it
FieldsFrom(b, n) == <<Take(b, n)>> \o Fields(Drop(b, n))

\* strings.Fields: the words between runs of white space
Fields(b) ==
    IF b = <<>> THEN <<>>
    ELSE IF IsSpace(Head(b)) THEN Fields(Tail(b))
    ELSE FieldsFrom(b, WordLen(b))

\* strings.Join
RECURSIVE Join(_, _)
Join(ws, sep) ==
    IF ws = <<>> THEN <<>>
    ELSE IF Len(ws) = 1 THEN ws[1]
    ELSE ws[1] \o sep \o Join(Tail(ws), sep)

\* strings.ToUpper for ASCII
ToUpper(b) == [j \in 1..Len(b) |-> IF b[j] >= 97 /\ b[j] <= 122 THEN b[j] - 32 ELSE b[j]]

SET == <<83, 69, 84>>
GET == <<71, 69, 84>>
DEL == <<68, 69, 76>>
SAVE == <<83, 65, 86, 69>>
LOAD == <<76, 79, 65, 68>>
OK == <<79, 75>>
NIL == <<78, 73, 76>>
ERR == <<69, 82, 82>>

\* the paths of the model as they are spelled on a line
Filename == [p \in Paths |-> IF p = "dir" THEN <<100, 105, 114>>
                                           ELSE <<100, 98, 46, 98, 105, 110>>]

PathOf(b) == CHOOSE p \in Paths : Filename[p] = b

\* a handler that takes SET with a key and no value
ArgsOkLoose(cmd) ==
    LET verb == ToUpper(cmd[1]) IN
      \/ verb = SET /\ Len(cmd) >= 2
      \/ verb \in {GET, DEL} /\ Len(cmd) = 2
      \/ verb \in {SAVE, LOAD} /\ Len(cmd) = 3

\* the switch on the verb and the checks of len(cmd): FALSE where the
\* handler answers ERR without calling anything
ArgsOk(cmd) ==
    LET verb == ToUpper(cmd[1]) IN
      \/ verb = SET /\ Len(cmd) >= 3
      \/ verb \in {GET, DEL} /\ Len(cmd) = 2
      \/ verb \in {SAVE, LOAD} /\ Len(cmd) = 3

\* fmt.Fprintln(c, reply) for the line being served
Answer(c, line, reply) ==
    [c EXCEPT !.wait = FALSE, !.line = <<>>,
              !.log = LET l == Append(@, [line |-> line, reply |-> reply]) IN
                        IF Len(l) > MaxLog THEN Tail(l) ELSE l]

\* strings.Join(cmd[2:], " ")
ValueOf(cmd) == Join(Drop(cmd, 2), <<32>>)

\* the call the handler makes for a well-formed command
Call(t, cmd, verb) ==
    IF verb = SET THEN Calling(t, "set", cmd[2], ValueOf(cmd), EmptyMap)
    ELSE IF verb = GET THEN Calling(t, "get", cmd[2], <<>>, EmptyMap)
    ELSE IF verb = DEL THEN Calling(t, "del", cmd[2], <<>>, EmptyMap)
    ELSE IF verb = SAVE THEN CallingFile(t, "save", PathOf(cmd[2]), cmd[3])
    ELSE CallingFile(t, "load", PathOf(cmd[2]), cmd[3])

\* cmd := strings.Fields(strings.TrimSpace(line)) and the switch
Dispatch(t, line, cmd) ==
    IF cmd = <<>> THEN UNCHANGED <<mu, data, heap, th, conn>>
    ELSE IF ~ArgsOk(cmd)
    THEN /\ conn' = Answer(conn, line, ERR)
         /\ UNCHANGED <<mu, data, heap, th>>
    ELSE /\ Call(t, cmd, ToUpper(cmd[1]))
         /\ conn' = [conn EXCEPT !.wait = TRUE, !.line = line]

\* the handler is at r.ReadString
Reading(t) == conn.open /\ ~conn.wait /\ th[t].pc \in {"idle", "done"}

\* a line of words with one space between them, and its newline
Line(ws) == Join(ws, <<32>>) \o <<10>>

\* what follows the key on a SET line: "a" and "a  b" (two spaces)
Rests == {<<97>>, <<97, 32, 32, 98>>}

\* "SET k <rest>"
SetLine(rest) == SET \o <<32, 107, 32>> \o rest \o <<10>>

\* the lines that are no well-formed command
Malformed ==
    {Line(<<SET, <<107>>>>), Line(<<GET>>), Line(<<DEL, <<107>>, <<107>>>>),
     Line(<<SAVE, Filename["db.bin"]>>), Line(<<LOAD>>), Line(<<<<70, 79, 79>>, <<107>>>>)}

\* the lines a client sends to set, get and delete; the last two are an
\* empty line and "get k"
StoreLines ==
    {SetLine(rest) : rest \in Rests}
      \cup {Line(<<GET, <<107>>>>), Line(<<DEL, <<107>>>>)}
      \cup Malformed
      \cup {<<10>>, Line(<<<<103, 101, 116>>, <<107>>>>)}

\* the lines a client sends to save and load: "SET k a", "GET k", "DEL k",
\* "SAVE db.bin p", "LOAD db.bin p" and "LOAD db.bin q"
FileLines ==
    {SetLine(<<97>>), Line(<<GET, <<107>>>>), Line(<<DEL, <<107>>>>),
     Line(<<SAVE, Filename["db.bin"], <<112>>>>),
     Line(<<LOAD, Filename["db.bin"], <<112>>>>),
     Line(<<LOAD, Filename["db.bin"], <<113>>>>)}

\* line, err := r.ReadString('\n') with a line of `lines`, and what the
\* switch does
HandleLine(t, lines) ==
    /\ Reading(t)
    /\ \E line \in lines : Dispatch(t, line, Fields(TrimSpace(line)))
    /\ UNCHANGED fs

\* r.ReadString returns an error: return, and the deferred c.Close()
HandleEOF(t) ==
    /\ Reading(t)
    /\ conn' = [conn EXCEPT !.open = FALSE]
    /\ UNCHANGED <<mu, data, heap, th, fs>>

\* a handler that tells a failed authentication from the other errors
ReplyCause(r) ==
    IF r.op \in {"save", "load"} /\ r.err = AuthFailed THEN <<65, 85, 84, 72>>
    ELSE IF r.op = "set" THEN OK
    ELSE IF r.op = "get" THEN (IF r.rb THEN r.rs ELSE NIL)
    ELSE IF r.op = "del" THEN (IF r.rb THEN OK ELSE NIL)
    ELSE IF r.err = "" THEN OK ELSE ERR

\* what the handler prints when the call has returned
Reply(r) ==
    IF r.op = "set" THEN OK
    ELSE IF r.op = "get" THEN (IF r.rb THEN r.rs ELSE NIL)
    ELSE IF r.op = "del" THEN (IF r.rb THEN OK ELSE NIL)
    ELSE IF r.err = "" THEN OK ELSE ERR

HandleReply(t) ==
    /\ conn.wait /\ th[t].pc = "done"
    /\ conn' = Answer(conn, conn.line, Reply(th[t]))
    /\ UNCHANGED <<mu, data, heap, th, fs>>

----------------------------------------------------------------------------
(* History variables.  They record, beside the program, what the claims     *)
(* speak of: which calls overlap, what the store held when a writer last    *)
(* unlocked, and what the calls that returned left under each key.  No      *)
(* action of the program reads them.                                        *)

Busy(r) == r.pc \notin {"idle", "done"}

\* the keys a call may write
Aff(r) == IF r.op \in {"set", "del"} THEN {r.key}
          ELSE IF r.op \in {"replace", "load"} THEN Keys ELSE {}

\* the keys whose state at the call the call's result depends on
Needs(r) == IF r.op \in {"set", "get", "del"} THEN {r.key}
            ELSE IF r.op \in {"snapshot", "save"} THEN Keys ELSE {}

Unknown == [st |-> "unknown", val |-> <<>>]

Absent == [st |-> "absent", val |-> <<>>]

Present(val) == [st |-> "present", val |-> val]

NoFile == [kind |-> "none", state |-> EmptyMap, pass |-> <<>>]

NoHistory == [exp |-> [k \in Keys |-> Unknown], clean |-> FALSE, conc |-> FALSE,
              seen |-> {}, at |-> EmptyMap, over |-> "none",
              store0 |-> EmptyMap, fs0 |-> <<>>, src |-> NoFile, wrote |-> <<>>]

\* what a call that overlapped no other writer of its keys leaves under k
Leaves(r, k) ==
    CASE r.op = "set" -> Present(r.val)
      [] r.op = "del" -> Absent
      [] r.op = "replace" -> IF k \in DOMAIN r.in THEN Present(r.in[k]) ELSE Absent
      [] OTHER -> Unknown

(* Outcomes.  settled[k] is what the last writer of k left there, known     *)
(* only while no call that may write k has been in progress since that      *)
(* writer was called.  For a call in progress or returned, g[t].exp is      *)
(* settled as it was at the call, forgotten for the keys a writer was       *)
(* called for since; g[t].clean says no other writer of its keys            *)
(* overlapped it; g[t].conc that a set of another key overlapped it.        *)
Outcomes(t) ==
    LET r == th[t]
        n == th'[t] IN
    /\ UNCHANGED <<committed, prov>>
    /\ IF ~Busy(r)
       THEN /\ settled' = [k \in Keys |-> IF k \in Aff(n) THEN Unknown ELSE settled[k]]
            /\ g' = [u \in Threads |->
                       IF u = t
                       THEN [NoHistory EXCEPT
                               !.exp = [k \in Keys |->
                                          IF k \in Needs(n) THEN settled[k] ELSE Unknown],
                               !.clean = \A x \in Threads \ {t} :
                                           Busy(th[x]) => Aff(th[x]) \cap Aff(n) = {},
                               !.conc = /\ n.op = "set"
                                        /\ \E x \in Threads \ {t} :
                                             /\ Busy(th[x]) /\ th[x].op = "set"
                                             /\ th[x].key # n.key]
                       ELSE IF Busy(th[u])
                       THEN [g[u] EXCEPT
                               !.exp = [k \in Keys |->
                                          IF k \in Aff(n) THEN Unknown ELSE @[k]],
                               !.clean = @ /\ Aff(th[u]) \cap Aff(n) = {},
                               !.conc = @ \/ (/\ n.op = "set" /\ th[u].op = "set"
                                              /\ th[u].key # n.key)]
                       ELSE g[u]]
       ELSE /\ settled' = [k \in Keys |->
                             IF n.pc = "done" /\ g[t].clean /\ k \in Aff(r)
                             THEN Leaves(r, k) ELSE settled[k]]
            /\ g' = g

(* Observations.  committed is the store's contents when a writer last      *)
(* unlocked: what a reader that takes the lock now finds.  For a get in     *)
(* progress, g[t].seen holds every (value, present) its key had in          *)
(* committed since the call; for a snapshot, g[t].at is committed as it     *)
(* was when the snapshot took its lock; g[t].over tells which writers'     *)
(* calls overlapped the reader's: "none", "replace" (replace calls only)    *)
(* or "mixed".                                                              *)
Overlap(ops) == IF ops = {} THEN "none"
                ELSE IF ops = {"replace"} THEN "replace" ELSE "mixed"

Observations(t) ==
    LET r == th[t]
        n == th'[t]
        commit == r.pc \in {"set_unlock", "del_unlock", "rep_unlock"} IN
    /\ UNCHANGED <<settled, prov>>
    /\ committed' = IF commit THEN Contents(data', heap') ELSE committed
    /\ g' = [u \in Threads |->
               IF u = t /\ ~Busy(r)
               THEN [NoHistory EXCEPT
                       !.seen = IF n.op = "get" THEN {Lookup(committed, n.key)} ELSE {},
                       !.over = IF n.op \in {"get", "snapshot"}
                                THEN Overlap({th[x].op : x \in {y \in Threads \ {t} :
                                                Busy(th[y]) /\ Aff(th[y]) # {}}})
                                ELSE "none"]
               ELSE IF u = t /\ r.pc = "snapshot"
               THEN [g[u] EXCEPT !.at = committed]
               ELSE IF /\ u # t /\ Busy(th[u]) /\ th[u].op \in {"get", "snapshot"}
                       /\ ~Busy(r) /\ Aff(n) # {}
               THEN [g[u] EXCEPT !.over = IF @ = "none" THEN Overlap({n.op})
                                         ELSE Overlap({@, n.op})]
               ELSE IF u # t /\ Busy(th[u]) /\ commit /\ th[u].op = "get"
               THEN [g[u] EXCEPT !.seen = @ \cup {Lookup(committed', th[u].key)}]
               ELSE g[u]]

----------------------------------------------------------------------------
(* Files.  prov[path] tells how the file at path came to be: "saved" by a   *)
(* saveToFile that returned nil, with the state it saved and its password;  *)
(* "partial" from a saveToFile that opened it and has not, or not yet,      *)
(* written all of it; "tampered" where os.WriteFile changed one byte of a   *)
(* saved file, with the password of the save; "crafted" by any other        *)
(* os.WriteFile.  For a call of saveToFile                                  *)
(* or loadFromFile, g[t].store0 and g[t].fs0 are the store's contents and   *)
(* the file system at t's call, kept while the call runs and after it       *)
(* returned an error; g[t].src is prov of the file loadFromFile read.       *)
OneByteChanged(a, b) ==
    Len(a) = Len(b) /\ Cardinality({i \in 1..Len(a) : a[i] # b[i]}) = 1

Files(t) ==
    LET r == th[t]
        n == th'[t] IN
    /\ UNCHANGED <<committed, settled>>
    /\ prov' = IF ~Busy(r) /\ n.op = "writefile"
               THEN [prov EXCEPT ![n.file] =
                       IF /\ @.kind = "saved"
                          /\ OneByteChanged(fs[n.file].bytes, fs'[n.file].bytes)
                       THEN [NoFile EXCEPT !.kind = "tampered", !.pass = prov[n.file].pass]
                       ELSE [NoFile EXCEPT !.kind = "crafted"]]
               ELSE IF r.pc = "save_open" /\ Busy(n)
               THEN [prov EXCEPT ![r.file] = [NoFile EXCEPT !.kind = "partial"]]
               ELSE IF r.pc = "save_zero"
               THEN [prov EXCEPT ![r.file] =
                       [kind |-> "saved", state |-> r.out, pass |-> r.pass]]
               ELSE prov
    /\ g' = [g EXCEPT ![t] =
               IF ~Busy(r)
               THEN IF n.op \in {"save", "load"}
                    THEN [NoHistory EXCEPT !.store0 = Contents(data, heap), !.fs0 = fs]
                    ELSE NoHistory
               ELSE IF r.pc = "load" THEN [@ EXCEPT !.src = prov[r.file]]
               ELSE IF ~Busy(n) /\ n.err = ""
               THEN [@ EXCEPT !.store0 = EmptyMap, !.fs0 = <<>>]
               ELSE @]

(* Saves.  For a call of saveToFile, g[t].wrote is the salt, the nonce and  *)
(* the ciphertext it is to write, and g[t].conc says that a saveToFile of   *)
(* another goroutine to the same file was in progress during the call.      *)
Saves(t) ==
    LET r == th[t]
        n == th'[t]
        same(x) == Busy(th[x]) /\ th[x].op = "save" /\ th[x].file = n.file IN
    /\ UNCHANGED <<committed, settled, prov>>
    /\ g' = [u \in Threads |->
               IF u = t /\ ~Busy(r)
               THEN [NoHistory EXCEPT
                       !.conc = n.op = "save" /\ \E x \in Threads \ {t} : same(x)]
               ELSE IF u = t /\ r.pc = "save_marshal"
               THEN [g[u] EXCEPT !.wrote = n.salt \o n.nonce \o n.ct]
               ELSE IF u # t /\ ~Busy(r) /\ n.op = "save" /\ same(u)
               THEN [g[u] EXCEPT !.conc = TRUE]
               ELSE g[u]]

----------------------------------------------------------------------------
(* The store under concurrent calls *)

Init ==
    /\ mu = [w |-> 0, r |-> {}]
    /\ data = EmptyMap
    /\ heap = [b \in {} |-> <<>>]
    /\ th = [t \in Threads |-> Idle]
    /\ fs = [p \in Paths |-> [kind |-> IF p = "dir" THEN "dir" ELSE "none", bytes |-> <<>>]]
    /\ conn = [open |-> TRUE, wait |-> FALSE, line |-> <<>>, log |-> <<>>]
    /\ committed = EmptyMap
    /\ settled = [k \in Keys |-> Absent]
    /\ g = [t \in Threads |-> NoHistory]
    /\ prov = [p \in Paths |-> NoFile]

Set(t) == CallSet(t) \/ SetLock(t) \/ SetLocked(t) \/ SetStore(t) \/ SetUnlock(t)

Get(t) == CallGet(t) \/ GetRLock(t) \/ GetLookup(t) \/ GetRUnlock(t) \/ GetString(t)

Del(t) ==
    \/ CallDel(t) \/ DelLock(t) \/ DelLocked(t) \/ DelLookup(t) \/ DelZero(t)
    \/ DelDelete(t) \/ DelUnlock(t)

Snapshot(t) == SnapshotRLock(t) \/ SnapshotRange(t) \/ SnapshotRUnlock(t)

Replace(t) ==
    \/ ReplaceLock(t) \/ ReplaceLocked(t) \/ ReplaceRange(t) \/ ReplaceZero(t)
    \/ ReplaceDelete(t) \/ ReplaceInstall(t) \/ ReplaceUnlock(t)

Store(t) ==
    \/ Set(t) \/ Get(t) \/ Del(t)
    \/ CallSnapshot(t) \/ Snapshot(t)
    \/ CallReplace(t) \/ Replace(t)

\* the calls of kv's methods, with the history of their outcomes
Next == \E t \in Threads : Store(t) /\ Outcomes(t) /\ UNCHANGED <<fs, conn>>

Spec == Init /\ [][Next]_vars

\* the same calls, with the history of what readers may observe
NextObs == \E t \in Threads : Store(t) /\ Observations(t) /\ UNCHANGED <<fs, conn>>

SpecObs == Init /\ [][NextObs]_vars

----------------------------------------------------------------------------
(* One goroutine that sets and deletes keys, saves and loads, and is given  *)
(* files saveToFile did not write                                           *)

Save(t) ==
    \/ SaveSeal(t) \/ SaveOpen(t) \/ SaveWriteSalt(t) \/ SaveWriteNonce(t)
    \/ SaveWriteCt(t) \/ SaveZero(t)

Load(t) == LoadRead(t) \/ LoadDecode(t) \/ LoadZero(t)

NextFile ==
    /\ \/ (Set(1) \/ Del(1) \/ Snapshot(1) \/ Replace(1)) /\ UNCHANGED fs
       \/ (CallSave(1) \/ CallLoad(1)) /\ UNCHANGED fs
       \/ Save(1) \/ Load(1)
       \/ OsWriteFile(1)
    /\ Files(1)
    /\ UNCHANGED conn

SpecFile == Init /\ [][NextFile]_vars

----------------------------------------------------------------------------
(* One connection, served by goroutine 1 *)

\* the steps of the call the handler made
RunStore(t) ==
    \/ SetLock(t) \/ SetLocked(t) \/ SetStore(t) \/ SetUnlock(t)
    \/ GetRLock(t) \/ GetLookup(t) \/ GetRUnlock(t) \/ GetString(t)
    \/ DelLock(t) \/ DelLocked(t) \/ DelLookup(t) \/ DelZero(t) \/ DelDelete(t)
    \/ DelUnlock(t)

Run(t) ==
    \/ (RunStore(t) \/ Snapshot(t) \/ Replace(t)) /\ UNCHANGED fs
    \/ Save(t) \/ Load(t)

Quiet == UNCHANGED <<committed, settled, g, prov>>

\* a client that sets, gets and deletes, and sends lines that are no command
NextConn ==
    \/ HandleLine(1, StoreLines) /\ Quiet
    \/ (HandleEOF(1) \/ HandleReply(1)) /\ Quiet
    \/ RunStore(1) /\ UNCHANGED <<fs, conn>> /\ Quiet

SpecConn == Init /\ [][NextConn]_vars

\* a client that saves and loads, while goroutine 2 tampers with the file
\* between two commands
NextConnFile ==
    \/ HandleLine(1, FileLines) /\ Files(1)
    \/ (HandleEOF(1) \/ HandleReply(1)) /\ Quiet
    \/ Run(1) /\ Files(1) /\ UNCHANGED conn
    \/ Reading(1) /\ TamperFile(2, th[1]) /\ Files(2) /\ UNCHANGED conn

SpecConnFile == Init /\ [][NextConnFile]_vars

(* Two connections whose handlers save the store *)
NextSave ==
    \E t \in Threads :
      /\ \/ (CallSave(t) \/ Snapshot(t)) /\ UNCHANGED fs
         \/ Save(t)
      /\ Saves(t)
      /\ UNCHANGED conn

SpecSave == Init /\ [][NextSave]_vars

(* Two connections whose handlers are scheduled fairly.  Both clients send  *)
(* "SET k a", "GET k" and "DEL k"; the first sends "SAVE db.bin p" too, the *)
(* second "LOAD db.bin p".                                                  *)

\* the call the handler of goroutine t makes
Start(t) ==
    \/ Calling(t, "set", <<107>>, <<97>>, EmptyMap)
    \/ Calling(t, "get", <<107>>, <<>>, EmptyMap)
    \/ Calling(t, "del", <<107>>, <<>>, EmptyMap)
    \/ t = 1 /\ CallingFile(t, "save", "db.bin", <<112>>)
    \/ t # 1 /\ CallingFile(t, "load", "db.bin", <<112>>)

History == <<committed, settled, g, prov>>

\* a step of goroutine t inside the call it made
Step(t) == Run(t) /\ UNCHANGED <<conn, History>>

\* goroutine t is let in by k.mu.Lock() or k.mu.RLock()
Acquire(t) ==
    /\ \/ SetLock(t) \/ DelLock(t) \/ ReplaceLock(t)
       \/ GetRLock(t) \/ SnapshotRLock(t)
    /\ UNCHANGED <<fs, conn, History>>

NextLive ==
    \E t \in Threads :
      \/ Start(t) /\ UNCHANGED <<fs, conn, History>>
      \/ Step(t)

(* The scheduler runs every goroutine that can take a step: weak fairness   *)
(* of Step.  sync.RWMutex lets a goroutine that waits in Lock or RLock in   *)
(* before those that arrive later: a pending Lock keeps new readers out,    *)
(* Unlock admits the readers that wait, and the writers' sync.Mutex hands   *)
(* the lock to a waiter that starves.  Hence strong fairness of Acquire.    *)
Fairness == \A t \in Threads : WF_vars(Step(t)) /\ SF_vars(Acquire(t))

SpecLive == Init /\ [][NextLive]_vars /\ Fairness

----------------------------------------------------------------------------
(* Claims about the store *)

Done(t, o) == th[t].pc = "done" /\ th[t].op = o

\* what get returned to its caller
Got(t) == [s |-> th[t].rs, ok |-> th[t].rb]

\* C1: a get that runs beside set, del and replace calls returns (v, true)
\* with v a value its key held at some instant between the call and the
\* return, or ("", false); never the bytes del or replace zeroed.
C1_GetReturnsCurrentValue ==
    \A t \in Threads :
      Done(t, "get") =>
        \/ Got(t).ok /\ Got(t) \in g[t].seen
        \/ Got(t) = [s |-> <<>>, ok |-> FALSE]

\* C2: a reader that overlaps a replace, and no other writer, observes the
\* state before the replace or the state after it: get returns what its key
\* held in one of the two, snapshot returns one of the two in full.
C2_ReplaceObservedAtomically ==
    \A t \in Threads :
      g[t].over = "replace" =>
        /\ Done(t, "get") => Got(t) \in g[t].seen
        /\ Done(t, "snapshot") => th[t].out = g[t].at

\* C7: the mapping snapshot returns is the store's full contents at one
\* instant of the call, the one at which it took the read lock, and stays so
\* whatever is written to the store afterwards.
C7_SnapshotPointInTime ==
    \A t \in Threads : Done(t, "snapshot") => th[t].out = g[t].at

\* a snapshot that writers overlapped has returned, and the store has moved on
C7_Witness ==
    \E t \in Threads :
      /\ Done(t, "snapshot")
      /\ g[t].over = "mixed"
      /\ th[t].out # EmptyMap
      /\ th[t].out # committed

InWrite(t) ==
    th[t].pc \in {"set_store", "set_unlock", "del_lookup", "del_zero", "del_delete",
                  "del_unlock", "rep_range", "rep_zero", "rep_delete", "rep_install",
                  "rep_unlock"}

InRead(t) == th[t].pc \in {"get_lookup", "get_runlock", "snap_range", "snap_runlock"}

\* C8: while a set, del or replace is inside its critical section no other
\* call is inside one; get and snapshot may be inside theirs together.
C8_SingleWriterMultiReader ==
    \A t \in Threads :
      InWrite(t) => \A u \in Threads \ {t} : ~InWrite(u) /\ ~InRead(u)

\* a get and a snapshot inside their critical sections at the same time
C8_Witness ==
    \E t, u \in Threads :
      /\ InRead(t) /\ th[t].op = "get"
      /\ InRead(u) /\ th[u].op = "snapshot"

\* C6: a snapshot called after sets of distinct keys have returned, the sets
\* having run side by side, holds each of these keys with the value set.
C6_NoLostUpdates ==
    \A t \in Threads :
      Done(t, "snapshot") =>
        \A k \in Keys :
          g[t].exp[k].st = "present" =>
            k \in DOMAIN th[t].out /\ th[t].out[k] = g[t].exp[k].val

\* two sets of distinct keys overlapped, both returned, and the snapshot one
\* of the two goroutines then took holds both keys
C6_Witness ==
    \E t, u \in Threads :
      /\ Done(t, "snapshot") /\ Done(u, "set")
      /\ g[u].conc /\ g[u].clean
      /\ \A k \in Keys : g[t].exp[k].st = "present"
      /\ th[t].out[th[u].key] = th[u].val

\* C9: after set(k, v), with no other call that writes k in between, get(k)
\* returns (v, true), whether k was absent or held another value.
C9_SetThenGet ==
    \A t \in Threads :
      Done(t, "get") /\ g[t].exp[th[t].key].st = "present" =>
        Got(t) = [s |-> g[t].exp[th[t].key].val, ok |-> TRUE]

\* get returned what a set left that overwrote another value
C9_Witness ==
    \E t, u \in Threads :
      /\ Done(t, "get") /\ g[t].exp[th[t].key].st = "present"
      /\ Done(u, "set") /\ th[u].key = th[t].key /\ th[u].val = th[t].rs
      /\ g[u].clean
      /\ g[u].exp[th[u].key].st = "present"
      /\ g[u].exp[th[u].key].val # th[u].val

\* C10: del(k) of a present key returns true; from then on, until k is
\* written again, get(k) returns ("", false) and del(k) returns false.
C10_DelThenAbsent ==
    \A t \in Threads :
      LET e == g[t].exp[th[t].key] IN
        /\ Done(t, "del") /\ e.st = "present" => th[t].rb
        /\ Done(t, "del") /\ e.st = "absent" => ~th[t].rb
        /\ Done(t, "get") /\ e.st = "absent" => Got(t) = [s |-> <<>>, ok |-> FALSE]

\* a del of a present key returned true and the next del of it returned false
C10_Witness ==
    \E t, u \in Threads :
      /\ Done(u, "del") /\ g[u].exp[th[u].key].st = "present" /\ th[u].rb
      /\ Done(t, "del") /\ th[t].key = th[u].key
      /\ g[t].exp[th[t].key].st = "absent" /\ ~th[t].rb

\* a step of goroutine t inside del
DelStep(t) == th[t].op = "del" /\ th'[t].op = "del" /\ th'[t] # th[t]

\* C11: del(k) of an absent key returns false, and none of its steps changes
\* the store: the keys and the value of every key stay as they are.
C11_DelAbsentLeavesStore ==
    [][\A t \in Threads :
         /\ DelStep(t) /\ ~th[t].ok /\ ~th'[t].ok =>
               Contents(data', heap') = Contents(data, heap)
         /\ DelStep(t) /\ th[t].pc = "del_lookup" /\ th[t].key \notin DOMAIN data =>
               th'[t].pc = "del_unlock" /\ ~th'[t].ok /\ ~th'[t].rb
         /\ DelStep(t) /\ th[t].pc = "del_unlock" /\ ~th[t].ok =>
               th'[t].pc = "done" /\ ~th'[t].rb]_vars

\* a del of an absent key has returned false, the store holding another key
C11_Witness ==
    \E t \in Threads :
      /\ Done(t, "del") /\ ~th[t].rb
      /\ th[t].key \notin DOMAIN data
      /\ data # EmptyMap

----------------------------------------------------------------------------
(* Claims about saveToFile and loadFromFile *)

\* the file loadFromFile read is one a saveToFile that returned nil wrote
\* with the same password, and nothing wrote to it since
Intact(src, pass) == src.kind = "saved" /\ src.pass = pass

InReplace(t) ==
    th[t].pc \in {"replace", "rep_locking", "rep_range", "rep_zero", "rep_delete",
                  "rep_install", "rep_unlock"}

\* the read, the length check, the decryption and the parsing succeeded, and
\* what was parsed is what replace was called with
ChecksPassed(r) ==
    LET d == Decode([r EXCEPT !.in = EmptyMap]) IN
      /\ r.buf = fs[r.file].bytes
      /\ ~TooShort(r.buf)
      /\ d.err = ""
      /\ r.in = d.in

\* C3: a load that fails returns an error and leaves the store as it was at
\* the call; a load fails when the path cannot be read, when the file is
\* shorter than 28 bytes, when the tag does not verify (another password
\* included) and when the plaintext does not parse; replace is reached only
\* when every one of these checks has passed.
C3_FailedLoadLeavesStore ==
    /\ Done(1, "load") /\ th[1].err # "" => Contents(data, heap) = g[1].store0
    /\ Done(1, "load") /\ ~Intact(g[1].src, th[1].pass) => th[1].err # ""
    /\ th[1].op = "load" /\ InReplace(1) => ChecksPassed(th[1])

\* a load with another password than the file was saved with has failed, the
\* store holding entries
C3_Witness ==
    /\ Done(1, "load")
    /\ g[1].src.kind = "saved" /\ g[1].src.pass # th[1].pass
    /\ th[1].err = AuthFailed
    /\ g[1].store0 # EmptyMap
    /\ Contents(data, heap) = g[1].store0

\* C12: a load of a file shorter than 28 bytes fails with the malformed-file
\* error, which is not the authentication error; a file of 28 bytes or more
\* passes the length check, and its first 16 bytes are the salt, the next 12
\* the nonce and the remainder the ciphertext with its tag.
C12_LengthCheckAndSplit ==
    /\ InvalidFile # AuthFailed
    /\ Done(1, "load") /\ fs[th[1].file].kind = "file" =>
          (Len(fs[th[1].file].bytes) < 28 <=> th[1].err = InvalidFile)
    /\ th[1].pc = "load_decode" =>
          LET b == th[1].buf
              r == Decode(th[1]) IN
            IF Len(b) < 28 THEN r.err = InvalidFile
            ELSE /\ r.err # InvalidFile
                 /\ r.salt = [j \in 1..16 |-> b[j]]
                 /\ r.nonce = [j \in 1..12 |-> b[16 + j]]
                 /\ r.ct = [j \in 1..(Len(b) - 28) |-> b[28 + j]]

\* a load of a file of 27 bytes has failed with the malformed-file error
C12_Witness ==
    /\ Done(1, "load")
    /\ fs[th[1].file].kind = "file" /\ Len(fs[th[1].file].bytes) = 27
    /\ th[1].err = InvalidFile

\* C13: a save to a path that is a directory fails with the error of the
\* open; the directory stays one and no file is created or modified.
C13_SaveToDirectory ==
    /\ fs["dir"].kind = "dir"
    /\ Done(1, "save") /\ th[1].file = "dir" =>
          th[1].err = "open" /\ fs = g[1].fs0

\* a save to the directory's path has failed, a saved file lying beside it
C13_Witness ==
    /\ Done(1, "save") /\ th[1].file = "dir" /\ th[1].err = "open"
    /\ prov["db.bin"].kind = "saved"
    /\ th[1].out # EmptyMap

\* C4: a load of the file a save wrote, with the password of the save,
\* succeeds and leaves the store with the keys and values that were saved,
\* whatever the store held at the load.
C4_RoundTrip ==
    Done(1, "load") /\ Intact(g[1].src, th[1].pass) =>
      th[1].err = "" /\ Contents(data, heap) = g[1].src.state

\* C5: a save or a load that returns an error leaves the store and the file
\* system as they were at the call.
C5_FailureLeavesState ==
    (Done(1, "save") \/ Done(1, "load")) /\ th[1].err # "" =>
      Contents(data, heap) = g[1].store0 /\ fs = g[1].fs0

-----------------------------------------------------------------------------
(* Claims about the handler of a connection *)

\* the handler has just printed a reply to the line `line`
Answered(line) ==
    /\ conn.wait \/ conn'.log # conn.log
    /\ ~conn'.wait /\ conn'.log # <<>>
    /\ conn'.log[Len(conn'.log)].line = line

\* C14: a line that is no well-formed command (SET with less than a key and
\* a value, GET or DEL without exactly a key, SAVE or LOAD without exactly a
\* file and a password, an unknown verb) makes no call on the store and is
\* answered ERR; the answer leaves the store and the files as they are and
\* the connection open, the handler reading the next line.
C14_MalformedLineAnsweredERR ==
    [][/\ conn'.wait => conn'.line \notin Malformed
       /\ \A i \in 1..Len(conn'.log) :
            conn'.log[i].line \in Malformed => conn'.log[i].reply = ERR
       /\ \A line \in Malformed :
            Answered(line) =>
              /\ Contents(data', heap') = Contents(data, heap)
              /\ fs' = fs
              /\ conn'.open /\ Reading(1)']_vars

\* "SET k" was answered ERR and the next line, "SET k a", was answered OK
C14_Witness ==
    /\ conn.open
    /\ conn.log = <<[line |-> Line(<<SET, <<107>>>>), reply |-> ERR],
                    [line |-> SetLine(<<97>>), reply |-> OK]>>
    /\ Contents(data, heap) = Put(EmptyMap, <<107>>, <<97>>)

\* C15: after the line "SET k <rest>" is answered OK, the GET k that follows
\* on the connection is answered with <rest> as it stood on the line.
C15_SetStoresRemainderOfLine ==
    \A rest \in Rests :
      /\ Len(conn.log) = 2
      /\ conn.log[1] = [line |-> SetLine(rest), reply |-> OK]
      /\ conn.log[2].line = Line(<<GET, <<107>>>>)
      => conn.log[2].reply = rest

\* the load that returned read a file that a save wrote with another
\* password and nothing changed since
WrongPassword(r, src) == src.kind = "saved" /\ src.pass # r.pass

\* the load that returned read a saved file of which one byte of the
\* ciphertext or of the tag was changed
TamperedFile(src) == src.kind = "tampered"

\* C16: a load of a saved file with a wrong password and a load of a saved
\* file whose ciphertext or tag was changed return the same error, and the
\* LOAD command answers ERR in both cases.
C16_WrongPasswordAsTampered ==
    /\ Done(1, "load")
    /\ WrongPassword(th[1], g[1].src) \/ TamperedFile(g[1].src)
    => /\ th[1].err = AuthFailed
       /\ ~conn.wait => conn.log # <<>> /\ conn.log[Len(conn.log)].reply = ERR

\* a LOAD with the password of the save was answered ERR on the tampered
\* file, after a LOAD with another password was answered ERR
C16_Witness ==
    /\ Done(1, "load") /\ TamperedFile(g[1].src) /\ g[1].src.pass = th[1].pass
    /\ th[1].err = AuthFailed
    /\ conn.log = <<[line |-> Line(<<LOAD, Filename["db.bin"], <<113>>>>), reply |-> ERR],
                    [line |-> Line(<<LOAD, Filename["db.bin"], <<112>>>>), reply |-> ERR]>>

-----------------------------------------------------------------------------
(* Claims about the buffers the store, saveToFile and loadFromFile leave *)

\* C17: when saveToFile or loadFromFile returns after it derived a key, with
\* nil or with an error, the key holds only zero bytes, and so does the
\* serialized plaintext of the save or the decrypted plaintext of the load.
C17_KeyAndPlaintextZeroed ==
    (Done(1, "save") \/ Done(1, "load")) /\ th[1].dk # <<>> =>
      /\ th[1].dk = Zero(th[1].dk)
      /\ th[1].blob = Zero(th[1].blob)
      /\ th[1].pt = Zero(th[1].pt)

\* goroutine t takes the step at pc
StepAt(t, pc) == th[t].pc = pc /\ th'[t] # th[t]

\* the buffer the mapping holds under key, before the step
Buffer(key) == heap[data[key]]

\* C18: when del or replace removes an entry from the mapping, the entry's
\* buffer holds only zero bytes; when set overwrites an entry it installs a
\* new buffer, and the bytes of the previous buffer stay as they were.
C18_ZeroedAtRemoval ==
    [][\A t \in Threads :
         /\ StepAt(t, "del_delete") \/ StepAt(t, "rep_delete") =>
              /\ th[t].key \in DOMAIN data /\ th[t].key \notin DOMAIN data'
              /\ Buffer(th[t].key) = Zero(Buffer(th[t].key))
         /\ StepAt(t, "set_store") /\ th[t].key \in DOMAIN data =>
              /\ data'[th[t].key] # data[th[t].key]
              /\ data[th[t].key] \in DOMAIN heap' =>
                   heap'[data[th[t].key]] = Buffer(th[t].key)]_vars

\* a del has removed its entry while a get that had looked the key up still
\* refers to the entry's buffer: the buffer holds only zero bytes
C18_Witness ==
    \E t, u \in Threads :
      /\ th[t].op = "del" /\ th[t].pc = "del_unlock" /\ th[t].rb
      /\ th[t].key \notin DOMAIN data
      /\ th[u].op = "get" /\ th[u].key = th[t].key
      /\ th[u].v \in DOMAIN heap /\ Len(heap[th[u].v]) > 0
      /\ heap[th[u].v] = Zero(heap[th[u].v])

-----------------------------------------------------------------------------
(* Claims about concurrent calls of saveToFile *)

\* both goroutines have returned nil from saves to `file` that overlapped
BothSaved(file) ==
    \A t \in Threads :
      /\ Done(t, "save") /\ th[t].err = "" /\ th[t].file = file
      /\ g[t].conc

\* C19: when two saves to the same path overlap and both return nil, the
\* file holds the salt, nonce and ciphertext of one of them, whole, and no
\* mix of what the two wrote.
C19_ConcurrentSavesLeaveOneOutput ==
    \A file \in Paths :
      BothSaved(file) => \E t \in Threads : fs[file].bytes = g[t].wrote

-----------------------------------------------------------------------------
(* Claims about the lock *)

\* goroutine t holds k.mu, for writing or for reading
Holds(t) == mu.w = t \/ t \in mu.r

\* the statements of snapshot and replace between the lock and the unlock,
\* and those of saveToFile and loadFromFile outside them
InSnapshot(t) == th[t].pc \in {"snap_range", "snap_runlock"}

InReplaceLocked(t) ==
    th[t].pc \in {"rep_locking", "rep_range", "rep_zero", "rep_delete", "rep_install",
                  "rep_unlock"}

\* no call is in progress, or a goroutine inside a call can take a step
NoDeadlock == (\E t \in Threads : Busy(th[t])) => \E t \in Threads : ENABLED Step(t)

\* C20: a goroutine that is in no call holds no lock; a goroutine in save or
\* load holds the lock only between the lock and the unlock of snapshot or
\* replace; some goroutine inside a call can always take a step; and under
\* fair scheduling every call that was started returns.
C20_LocksReleasedAndCallsReturn ==
    /\ [](\A t \in Threads :
            /\ ~Busy(th[t]) => ~Holds(t)
            /\ th[t].op \in {"save", "load"} /\ Holds(t) =>
                 InSnapshot(t) \/ InReplaceLocked(t))
    /\ []NoDeadlock
    /\ \A t \in Threads : Busy(th[t]) ~> ~Busy(th[t])

\* goroutine 2 waits in replace's Lock, called by a load, for goroutine 1,
\* which reads the store inside the snapshot of a save
C20_Witness ==
    /\ th[2].op = "load" /\ th[2].pc = "rep_locking" /\ mu.w = 2
    /\ th[1].op = "save" /\ InSnapshot(1) /\ 1 \in mu.r
    /\ data # EmptyMap

=============================================================================
